---- MODULE Spec2Model ----
(***************************************************************************)
(* Link resolution and click accounting of the URL shortener.              *)
(*                                                                         *)
(* The link table lives in PostgreSQL; every route handler is an async     *)
(* function whose awaits on the database are the only points where other   *)
(* requests interleave.  One action of this module is one such segment of  *)
(* a handler: the statement the database executes, together with the       *)
(* synchronous code of the handler that follows it up to the next await    *)
(* or the response.                                                        *)
(***************************************************************************)
EXTENDS Integers, Sequences, FiniteSets, TLC

(***************************************************************************)
(* Bounds of the model.                                                    *)
(***************************************************************************)
NumProc == 2        \* requests that can be in flight at the same time
MaxRequests == 4    \* requests started in one behaviour
MaxTime == 1        \* last value of the wall clock

Procs == 1..NumProc
Times == 0..MaxTime

(***************************************************************************)
(* Program constants.                                                      *)
(***************************************************************************)
CodeLength == 6         \* customAlphabet(alphabet, 6)
MinCodeLength == 6      \* /^[A-Za-z0-9]{6,8}$/
\* mutant: /^[A-Za-z0-9]{6,9}$/
MaxCodeLengthOfNine == 8 + 1
MaxCodeLength == 8
MaxUrlLength == 2048
\* mutant: the loop runs while attempt <= maxAttempts + 1
MaxAttemptsOffByOne == 3 + 1

DefaultMaxAttempts == 3

Upper == {"A","B","C","D","E","F","G","H","I","J","K","L","M",
          "N","O","P","Q","R","S","T","U","V","W","X","Y","Z"}
Lower == {"a","b","c","d","e","f","g","h","i","j","k","l","m",
          "n","o","p","q","r","s","t","u","v","w","x","y","z"}
Digits == {"0","1","2","3","4","5","6","7","8","9"}
Alphabet == Upper \cup Lower \cup Digits
Whitespace == {" "}

(***************************************************************************)
(* Optional values: <<>> is null / undefined, <<v>> is the value v.        *)
(***************************************************************************)
None == <<>>
Some(v) == <<v>>

(***************************************************************************)
(* Inputs.  A code is a sequence of characters.  A url is described by     *)
(* what validateUrl looks at: whether it is blank, its protocol, whether   *)
(* the rest is well formed, and its length.                                *)
(***************************************************************************)
CodeA == <<"a","b","c","1","2","3">>
CodeB == <<"T","e","s","t","0","1">>
CodeShort == <<"a","b","1","2">>
CodeEmpty == <<>>
CodeEight == <<"M","y","L","i","n","k","9","9">>
Codes == {CodeA, CodeB}

UrlA == [name |-> "example.com", protocol |-> "https", wellFormed |-> TRUE,
         blank |-> FALSE, length |-> 19]
UrlB == [name |-> "google.com", protocol |-> "http", wellFormed |-> TRUE,
         blank |-> FALSE, length |-> 17]
UrlFtp == [name |-> "files.org", protocol |-> "ftp", wellFormed |-> TRUE,
           blank |-> FALSE, length |-> 15]
\* no targetUrl in the body (undefined), a targetUrl of spaces, and one of
\* 2049 characters
UrlMissing == [name |-> "undefined", protocol |-> "", wellFormed |-> FALSE,
               blank |-> TRUE, length |-> 0]
UrlBlank == [name |-> "   ", protocol |-> "", wellFormed |-> FALSE,
             blank |-> TRUE, length |-> 3]
UrlLong == [name |-> "example.com/aaa...", protocol |-> "https", wellFormed |-> TRUE,
            blank |-> FALSE, length |-> 2049]

\* the request bodies and path parameters the clients send
PathCodes == Codes
\* the codes of the rows a LinkTable is given
TableCodes == Codes \cup {CodeEight}
\* the strings over the alphabet nanoid is taken to draw from; a generator of
\* size n returns those of length n
GeneratedCodes == Codes \cup {CodeEight}

(***************************************************************************)
(* Validator (src/lib/validation.ts).  A result is [valid, error].         *)
(***************************************************************************)
Valid == [valid |-> TRUE, error |-> ""]
Invalid(msg) == [valid |-> FALSE, error |-> msg]

\* code.trim().length === 0
IsBlank(code) == \A i \in DOMAIN code : code[i] \in Whitespace

\* /^[A-Za-z0-9]{6,8}$/.test(code)
CodeRegexTest(code) ==
    /\ Len(code) >= MinCodeLength
    /\ Len(code) <= MaxCodeLength
    /\ \A i \in DOMAIN code : code[i] \in Alphabet

\* validator.isURL(url, {protocols: ['http','https'], require_protocol: true,
\*                       require_valid_protocol: true})
IsURL(url) == url.wellFormed /\ url.protocol \in {"http", "https"}

validateUrl(url) ==
    IF url.blank THEN Invalid("URL is required")
    ELSE IF ~IsURL(url)
         THEN Invalid("Invalid URL format. Must start with http:// or https://")
    ELSE IF url.length > MaxUrlLength
         THEN Invalid("URL is too long (max 2048 characters)")
    ELSE Valid

validateCode(code) ==
    IF Len(code) = 0 \/ IsBlank(code) THEN Invalid("Code is required")
    ELSE IF ~CodeRegexTest(code)
         THEN IF Len(code) < MinCodeLength
                  THEN Invalid("Code must be at least 6 characters long")
              ELSE IF Len(code) > MaxCodeLength
                  THEN Invalid("Code must be at most 8 characters long")
              ELSE Invalid("Code can only contain letters (A-Z, a-z) and numbers (0-9)")
    ELSE Valid

\* JavaScript truthiness of an optional string: undefined and "" are falsy
Truthy(customCode) == customCode # None /\ Len(customCode[1]) > 0

validateCreateLinkRequest(targetUrl, customCode) ==
    IF ~validateUrl(targetUrl).valid THEN validateUrl(targetUrl)
    ELSE IF Truthy(customCode) /\ ~validateCode(customCode[1]).valid
         THEN validateCode(customCode[1])
    ELSE Valid

(***************************************************************************)
(* Code generator (src/lib/utils.ts).                                      *)
(***************************************************************************)
\* generateShortCode(): the codes one call can return
generateShortCode == {c \in GeneratedCodes : Len(c) = CodeLength}

\* toISOString(): the ISO-8601 text of a timestamp
ToISOString(t) == <<"ISO-8601", t>>

\* serializeLink: the JSON form of a row (also written out inline in POST
\* and in GET /api/links/:code)
serializeLink(link) ==
    [id |-> link.id,
     code |-> link.code,
     targetUrl |-> link.targetUrl,
     totalClicks |-> link.totalClicks,
     lastClickedAt |-> IF link.lastClickedAt # None
                       THEN Some(ToISOString(link.lastClickedAt[1]))
                       ELSE None,
     createdAt |-> ToISOString(link.createdAt)]

(***************************************************************************)
(* Link store: the links table (src/lib/schema.ts) and the statements the  *)
(* handlers run on it.  The table is a set of rows.                        *)
(***************************************************************************)
\* mutant: .defaultNow() put on last_clicked_at as well
RowClickedAtCreation(id, code, targetUrl, createdAt) ==
    [id |-> id, code |-> code, targetUrl |-> targetUrl,
     totalClicks |-> 0, lastClickedAt |-> Some(createdAt), createdAt |-> createdAt]

Row(id, code, targetUrl, createdAt) ==
    [id |-> id, code |-> code, targetUrl |-> targetUrl,
     totalClicks |-> 0, lastClickedAt |-> None, createdAt |-> createdAt]

Matching(t, code) == {r \in t : r.code = code}

\* mutant: the select has no where clause
SelectAnyRow(t, code) ==
    IF t = {} THEN {<<>>} ELSE {<<r>> : r \in t}

\* mutant: the select compares with an undefined code and finds nothing
SelectByUndefinedCode(t, code) == {<<>>}

\* select().from(links).where(eq(links.code, code)).limit(1): the results
\* the statement can return, each a sequence of at most one row
SelectByCode(t, code) ==
    IF Matching(t, code) = {} THEN {<<>>}
    ELSE {<<r>> : r \in Matching(t, code)}

\* mutant: the column is declared without .unique()
NoUniqueConstraint(t, code) == FALSE

\* code ... .unique(): the constraint an insert is checked against
UniqueCodeViolated(t, code) == Matching(t, code) # {}

\* insert(links).values({code, targetUrl, totalClicks: 0, lastClickedAt: null})
InsertRow(t, id, code, targetUrl, at) == t \cup {Row(id, code, targetUrl, at)}

\* update(links).set({totalClicks: sql`total_clicks + 1`, lastClickedAt: at})
\*   .where(eq(links.code, code))
\* mutant: the update also stamps created_at
ClickedRowTouchesCreatedAt(r, at) ==
    [r EXCEPT !.totalClicks = r.totalClicks + 1, !.lastClickedAt = Some(at),
              !.createdAt = at]

\* mutant: the update sets the counter only
ClickedRowCounterOnly(r, at) ==
    [r EXCEPT !.totalClicks = r.totalClicks + 1]

ClickedRow(r, at) ==
    [r EXCEPT !.totalClicks = r.totalClicks + 1, !.lastClickedAt = Some(at)]

IncrementClick(t, code, at) ==
    {IF r.code = code THEN ClickedRow(r, at) ELSE r : r \in t}

\* mutant: params is not awaited, the delete compares with an undefined code
DeleteByUndefinedCode(t, code) == t \ Matching(t, None)

\* delete(links).where(eq(links.code, code))
DeleteByCode(t, code) == t \ Matching(t, code)

\* mutant: orderBy(desc(links.createdAt)), newest first
OrderedByCreatedAtDescending(t) ==
    {s \in [1..Cardinality(t) -> t] :
        /\ \A i, j \in DOMAIN s : i < j => s[i] # s[j] /\ s[i].createdAt >= s[j].createdAt}

\* the orders in which select().from(links).orderBy(links.createdAt) can
\* return the rows: ascending createdAt, rows of equal createdAt in any order
OrderedByCreatedAt(t) ==
    {s \in [1..Cardinality(t) -> t] :
        /\ \A i, j \in DOMAIN s : i < j => s[i] # s[j] /\ s[i].createdAt <= s[j].createdAt}

\* messages of the errors a statement can throw
UniqueViolationMsg ==
    <<"duplicate", "key", "value", "violates", "unique", "constraint">>
StoreFailureMsg == <<"connection", "terminated">>
JsonSyntaxMsg == <<"Unexpected", "token">>

\* error.message.includes(word)
Includes(msg, word) == \E i \in DOMAIN msg : msg[i] = word

(***************************************************************************)
(* State.                                                                  *)
(***************************************************************************)
VARIABLES
    table,      \* the rows of the links table
    nextId,     \* next value of the serial id
    now,        \* the wall clock
    started,    \* number of requests started so far
    req,        \* per handler slot: the request in flight there and where it is
    last,       \* the request answered by the step just taken, with its response
    redirects,  \* history: per code, the 302 responses given
    created,    \* history: per code, the 201 responses given
    conflicts,  \* history: per code, the 409 responses given
    removed,    \* history: the codes of which a row was ever deleted
    gone,       \* history: the codes whose DELETE answered 200, not inserted since
    gen,        \* a call of generateUniqueShortCode taken alone
    val,        \* a call of a validator taken alone
    links,      \* LinkTable: the codes of the rows shown (props.links)
    deletingCode, \* LinkTable: useState deletingCode
    tableError, \* LinkTable: useState error
    deletes     \* LinkTable: per code, the DELETE fetches not yet settled

serverVars ==
    <<table, nextId, now, started, req, last,
      redirects, created, conflicts, removed, gone>>
histories == <<redirects, created, conflicts, removed, gone>>
\* the components studied on their own: the server's handlers do not touch them
libraryVars == <<gen, val>>
componentVars == <<links, deletingCode, tableError, deletes>>
vars == <<serverVars, libraryVars, componentVars>>

\* no call
NoCall == [fn |-> "none"]

NoBody == [kind |-> "none", error |-> "", payload |-> <<>>]
ErrorBody(msg) == [kind |-> "json", error |-> msg, payload |-> <<>>]
LinkBody(ser) == [kind |-> "link", error |-> "", payload |-> <<ser>>]
LinksBody(sers) == [kind |-> "links", error |-> "", payload |-> sers]
DeletedBody(code) ==
    [kind |-> "deleted", error |-> "", payload |-> <<"Link deleted successfully", code>>]
TextBody(text) == [kind |-> "text", error |-> "", payload |-> <<text>>]
RedirectBody(url) == [kind |-> "redirect", error |-> "", payload |-> <<url>>]

Idle ==
    [op |-> "none", pc |-> "idle",
     customCode |-> None,   \* body.customCode of a POST
     targetUrl |-> None,    \* body.targetUrl of a POST
     code |-> None,         \* params.code, or codeToUse of a POST
     link |-> <<>>,         \* result of the handler's select
     since |-> 0,           \* when that select returned
     attempt |-> 0,         \* loop counter of generateUniqueShortCode
     caught |-> None,       \* message of the error the catch block received
     rowCount |-> None,     \* rows affected by the handler's update or delete
     afterDelete |-> FALSE, \* history: started while its code was in gone
     status |-> 0, body |-> NoBody]

ServerInit ==
    /\ table = {}
    /\ nextId = 1
    /\ now = 0
    /\ started = 0
    /\ req = [p \in Procs |-> Idle]
    /\ last = Idle
    /\ redirects = [c \in Codes |-> 0]
    /\ created = [c \in Codes |-> 0]
    /\ conflicts = [c \in Codes |-> 0]
    /\ removed = {}
    /\ gone = {}

\* the libraries and the page at rest
LibrariesIdle == gen = NoCall /\ val = NoCall
NoPageOpen ==
    /\ links = {} /\ deletingCode = None /\ tableError = None
    /\ deletes = [code \in TableCodes |-> 0]

Init == ServerInit /\ LibrariesIdle /\ NoPageOpen

\* a new request is served by the first slot that serves none
Free(p) ==
    /\ started < MaxRequests
    /\ req[p].pc = "idle"
    /\ \A q \in Procs : q < p => req[q].pc # "idle"

\* the request r as answered with status and body
Responded(r, status, body) ==
    [r EXCEPT !.pc = "done", !.status = status, !.body = body,
              !.since = 0, !.attempt = 0]

\* the handler in slot p returns the response: the slot is free again
Respond(p, r, status, body) ==
    /\ req' = [req EXCEPT ![p] = Idle]
    /\ last' = Responded(r, status, body)

\* the handler in slot p goes on to its next statement
Continue(p, r) ==
    /\ req' = [req EXCEPT ![p] = r]
    /\ last' = Idle

Bump(f, code) == IF code \in DOMAIN f THEN [f EXCEPT ![code] = @ + 1] ELSE f

\* the code a request is about
RequestCode(r) == IF r.op = "post" /\ Truthy(r.customCode) THEN r.customCode ELSE r.code

\* a request for params.code = c arrives at a free slot.  Nothing a handler does
\* before its first statement reads or writes shared state, so the arrival is
\* taken together with that statement.
Arrived(op, c) == [Idle EXCEPT !.op = op, !.code = Some(c), !.afterDelete = c \in gone]

\* the clock advances at any time
Tick ==
    /\ now < MaxTime
    /\ now' = now + 1
    /\ last' = Idle
    /\ UNCHANGED <<table, nextId, started, req, histories>>
    /\ UNCHANGED <<libraryVars, componentVars>>

(***************************************************************************)
(* POST /api/links (src/app/api/links/route.ts).                           *)
(***************************************************************************)
\* a JSON body {targetUrl, customCode}
JsonBody(targetUrl, customCode) ==
    [parses |-> TRUE, targetUrl |-> Some(targetUrl), customCode |-> customCode]

\* the request bodies clients send: one that is no JSON, and JSON ones with
\* and without a custom code, valid and invalid
RequestBodies ==
    {[parses |-> FALSE, targetUrl |-> None, customCode |-> None],
     JsonBody(UrlFtp, None),
     JsonBody(UrlMissing, None),
     JsonBody(UrlBlank, Some(CodeA)),
     JsonBody(UrlLong, None),
     JsonBody(UrlA, Some(CodeShort)),
     JsonBody(UrlA, Some(CodeEmpty)),
     JsonBody(UrlA, None),
     JsonBody(UrlA, Some(CodeA)),
     JsonBody(UrlB, Some(CodeA)),
     JsonBody(UrlA, Some(CodeB))}

\* mutant: the catch block answers every error with the generic 500
PostCatchGeneric(msg) ==
    [status |-> 500, body |-> ErrorBody("Internal server error")]

\* mutant: the catch block takes every error of the insert for a duplicate
PostCatchAlwaysConflict(msg) ==
    [status |-> 409, body |-> ErrorBody("Code already exists")]

\* mutant: the catch block rethrows, the framework answers without a JSON body
PostCatchRethrow(msg) == [status |-> 500, body |-> NoBody]

\* the catch block of POST
PostCatch(msg) ==
    IF Includes(msg, "unique")
    THEN [status |-> 409, body |-> ErrorBody("Code already exists")]
    ELSE [status |-> 500, body |-> ErrorBody("Internal server error")]

\* steps 1-3 up to the first statement: parse the body, validate, pick the branch
PostStart(p) ==
    /\ Free(p)
    /\ started' = started + 1
    /\ \E b \in RequestBodies :
         LET r == [Idle EXCEPT !.op = "post", !.targetUrl = b.targetUrl,
                               !.customCode = b.customCode,
                               !.afterDelete =
                                   Truthy(b.customCode) /\ b.customCode[1] \in gone]
         IN  IF ~b.parses
             THEN Respond(p, [r EXCEPT !.caught = Some(JsonSyntaxMsg)],
                          PostCatch(JsonSyntaxMsg).status, PostCatch(JsonSyntaxMsg).body)
             ELSE LET validation ==
                          validateCreateLinkRequest(b.targetUrl[1], b.customCode)
                  IN  IF ~validation.valid
                      THEN Respond(p, r, 400, ErrorBody(validation.error))
                      ELSE IF Truthy(b.customCode)
                      THEN Continue(p, [r EXCEPT !.pc = "post_exists"])
                      ELSE Continue(p, [r EXCEPT !.pc = "post_generate", !.attempt = 1])
    /\ UNCHANGED <<table, nextId, now, histories>>
    /\ UNCHANGED <<libraryVars, componentVars>>

\* custom code: the existence check
PostCheckExists(p) ==
    /\ req[p].pc = "post_exists"
    /\ \E existingLink \in SelectByCode(table, req[p].customCode[1]) :
         IF Len(existingLink) > 0
         THEN /\ Respond(p, req[p], 409, ErrorBody("Code already exists"))
              /\ conflicts' = Bump(conflicts, req[p].customCode[1])
         ELSE /\ Continue(p, [req[p] EXCEPT !.pc = "post_insert",
                                            !.code = req[p].customCode])
              /\ UNCHANGED conflicts
    /\ UNCHANGED <<table, nextId, now, started, redirects, created, removed, gone>>
    /\ UNCHANGED <<libraryVars, componentVars>>

\* no custom code: one iteration of the loop of generateUniqueShortCode
PostGenerate(p) ==
    /\ req[p].pc = "post_generate"
    /\ \E candidate \in generateShortCode :
       \E existing \in SelectByCode(table, candidate) :
         IF Len(existing) = 0
         THEN Continue(p, [req[p] EXCEPT !.pc = "post_insert", !.code = Some(candidate)])
         ELSE IF req[p].attempt < DefaultMaxAttempts
         THEN Continue(p, [req[p] EXCEPT !.attempt = @ + 1])
         ELSE Respond(p, req[p], 500,
                      ErrorBody("Failed to generate unique code. Please try again."))
    /\ UNCHANGED <<table, nextId, now, started, histories>>
    /\ UNCHANGED <<libraryVars, componentVars>>

\* a row with this code has been inserted: the requests about the code that
\* are in flight no longer come after a delete of it
Reregistered(r, code) ==
    IF RequestCode(r) = Some(code) THEN [r EXCEPT !.afterDelete = FALSE] ELSE r

\* step 4-6: the insert and the 201, or the unique violation and the catch block
PostInsert(p) ==
    /\ req[p].pc = "post_insert"
    /\ LET code == req[p].code[1]
           row == Row(nextId, code, req[p].targetUrl[1], now)
       IN  IF UniqueCodeViolated(table, code)
           THEN /\ Respond(p, [req[p] EXCEPT !.caught = Some(UniqueViolationMsg)],
                           PostCatch(UniqueViolationMsg).status,
                           PostCatch(UniqueViolationMsg).body)
                /\ conflicts' =
                      IF PostCatch(UniqueViolationMsg).status = 409
                      THEN Bump(conflicts, code) ELSE conflicts
                /\ UNCHANGED <<table, nextId, created, gone>>
           ELSE /\ table' = InsertRow(table, nextId, code, req[p].targetUrl[1], now)
                /\ nextId' = nextId + 1
                /\ req' = [q \in Procs |->
                             IF q = p THEN Idle ELSE Reregistered(req[q], code)]
                /\ last' = Responded(req[p], 201, LinkBody(serializeLink(row)))
                /\ created' = Bump(created, code)
                /\ gone' = gone \ {code}
                /\ UNCHANGED conflicts
    /\ UNCHANGED <<now, started, redirects, removed>>
    /\ UNCHANGED <<libraryVars, componentVars>>

(***************************************************************************)
(* GET /:code, the redirect (src/app/[code]/route.ts).                     *)
(***************************************************************************)
\* steps 2-3: the select and the 404
RedirectLookup(p) ==
    /\ Free(p)
    /\ started' = started + 1
    /\ \E c \in PathCodes :
       \E link \in SelectByCode(table, c) :
         IF Len(link) = 0
         THEN Respond(p, Arrived("redirect", c), 404, TextBody("Not Found"))
         ELSE Continue(p, [Arrived("redirect", c) EXCEPT
                              !.pc = "redirect_update", !.link = link, !.since = now])
    /\ UNCHANGED <<table, nextId, now, histories>>
    /\ UNCHANGED <<libraryVars, componentVars>>

\* mutant: the handler computes the new count from the row it selected
RedirectUpdateReadModifyWrite(p) ==
    /\ req[p].pc = "redirect_update"
    /\ \E at \in req[p].since..now :
         table' = {IF r.code = req[p].code[1]
                   THEN [r EXCEPT !.totalClicks = req[p].link[1].totalClicks + 1,
                                  !.lastClickedAt = Some(at)]
                   ELSE r : r \in table}
    /\ Respond(p, [req[p] EXCEPT
                      !.rowCount = Some(Cardinality(Matching(table, req[p].code[1])))],
               302, RedirectBody(req[p].link[1].targetUrl))
    /\ redirects' = Bump(redirects, req[p].code[1])
    /\ UNCHANGED <<nextId, now, started, created, conflicts, removed, gone>>
    /\ UNCHANGED <<libraryVars, componentVars>>

\* steps 4-5: the update, with new Date() read after the select returned, and
\* the 302 to the target of the row the select returned
RedirectUpdate(p) ==
    /\ req[p].pc = "redirect_update"
    /\ \E at \in req[p].since..now :
         table' = IncrementClick(table, req[p].code[1], at)
    /\ Respond(p, [req[p] EXCEPT
                      !.rowCount = Some(Cardinality(Matching(table, req[p].code[1])))],
               302, RedirectBody(req[p].link[1].targetUrl))
    /\ redirects' = Bump(redirects, req[p].code[1])
    /\ UNCHANGED <<nextId, now, started, created, conflicts, removed, gone>>
    /\ UNCHANGED <<libraryVars, componentVars>>

(***************************************************************************)
(* GET /api/links/:code and GET /api/links.                                *)
(***************************************************************************)
\* the response of GET /api/links/:code to the result of its select
GetResponse(link) ==
    IF Len(link) = 0
    THEN [status |-> 404, body |-> ErrorBody("Link not found")]
    ELSE [status |-> 200, body |-> LinkBody(serializeLink(link[1]))]

\* mutant: fetching the stats counts as a click
GetLookupCountsClick(p) ==
    /\ Free(p)
    /\ started' = started + 1
    /\ \E c \in PathCodes :
       \E link \in SelectByCode(table, c) :
         /\ Respond(p, Arrived("get", c), GetResponse(link).status, GetResponse(link).body)
         /\ table' = IncrementClick(table, c, now)
    /\ UNCHANGED <<nextId, now, histories>>
    /\ UNCHANGED <<libraryVars, componentVars>>

GetLookup(p) ==
    /\ Free(p)
    /\ started' = started + 1
    /\ \E c \in PathCodes :
       \E link \in SelectByCode(table, c) :
         Respond(p, Arrived("get", c), GetResponse(link).status, GetResponse(link).body)
    /\ UNCHANGED <<table, nextId, now, histories>>
    /\ UNCHANGED <<libraryVars, componentVars>>

\* serializeLinks(allLinks)
serializeLinks(allLinks) == [i \in DOMAIN allLinks |-> serializeLink(allLinks[i])]

ListSelect(p) ==
    /\ Free(p)
    /\ started' = started + 1
    /\ \E allLinks \in OrderedByCreatedAt(table) :
         Respond(p, [Idle EXCEPT !.op = "list"], 200, LinksBody(serializeLinks(allLinks)))
    /\ UNCHANGED <<table, nextId, now, histories>>
    /\ UNCHANGED <<libraryVars, componentVars>>

(***************************************************************************)
(* DELETE /api/links/:code.                                                *)
(***************************************************************************)
\* step 2: the existence check and the 404
DeleteLookup(p) ==
    /\ Free(p)
    /\ started' = started + 1
    /\ \E c \in PathCodes :
       \E existingLink \in SelectByCode(table, c) :
         IF Len(existingLink) = 0
         THEN Respond(p, Arrived("delete", c), 404, ErrorBody("Link not found"))
         ELSE Continue(p, [Arrived("delete", c) EXCEPT
                              !.pc = "delete_exec", !.link = existingLink])
    /\ UNCHANGED <<table, nextId, now, histories>>
    /\ UNCHANGED <<libraryVars, componentVars>>

\* steps 3-4: the delete and the 200
DeleteExec(p) ==
    /\ req[p].pc = "delete_exec"
    /\ table' = DeleteByCode(table, req[p].code[1])
    /\ Respond(p, [req[p] EXCEPT
                      !.rowCount = Some(Cardinality(Matching(table, req[p].code[1])))],
               200, DeletedBody(req[p].code[1]))
    /\ removed' = IF Matching(table, req[p].code[1]) # {}
                  THEN removed \cup {req[p].code[1]} ELSE removed
    /\ gone' = gone \cup {req[p].code[1]}
    /\ UNCHANGED <<nextId, now, started, redirects, created, conflicts>>
    /\ UNCHANGED <<libraryVars, componentVars>>

(***************************************************************************)
(* A statement fails in the store (connection lost, timeout, ...): it has  *)
(* no effect and the handler's catch block answers.                        *)
(***************************************************************************)
AwaitingStore(p) ==
    req[p].pc \in {"post_exists", "post_generate", "post_insert", "redirect_update",
                   "delete_exec"}

\* mutant: every catch block answers in plain text
CatchPlainText(op, msg) ==
    [status |-> 500, body |-> TextBody("Internal Server Error")]

\* the catch blocks of the handlers
Catch(op, msg) ==
    IF op = "post" THEN PostCatch(msg)
    ELSE IF op = "redirect"
    THEN [status |-> 500, body |-> TextBody("Internal Server Error")]
    ELSE [status |-> 500, body |-> ErrorBody("Internal server error")]

StoreFailure(p) ==
    /\ AwaitingStore(p)
    /\ Respond(p, [req[p] EXCEPT !.caught = Some(StoreFailureMsg)],
               Catch(req[p].op, StoreFailureMsg).status,
               Catch(req[p].op, StoreFailureMsg).body)
    /\ UNCHANGED <<table, nextId, now, started, histories>>
    /\ UNCHANGED <<libraryVars, componentVars>>

\* the first statement of a handler fails
FirstStatementFailure(p) ==
    /\ Free(p)
    /\ started' = started + 1
    /\ \E r \in {Arrived(op, c) : op \in {"redirect", "get", "delete"}, c \in PathCodes}
               \cup {[Idle EXCEPT !.op = "list"]} :
         Respond(p, [r EXCEPT !.caught = Some(StoreFailureMsg)],
                 Catch(r.op, StoreFailureMsg).status,
                 Catch(r.op, StoreFailureMsg).body)
    /\ UNCHANGED <<table, nextId, now, histories>>
    /\ UNCHANGED <<libraryVars, componentVars>>

Next ==
    \/ Tick
    \/ \E p \in Procs : PostStart(p)
    \/ \E p \in Procs : PostCheckExists(p)
    \/ \E p \in Procs : PostGenerate(p)
    \/ \E p \in Procs : PostInsert(p)
    \/ \E p \in Procs : RedirectLookup(p)
    \/ \E p \in Procs : RedirectUpdate(p)
    \/ \E p \in Procs : GetLookup(p)
    \/ \E p \in Procs : ListSelect(p)
    \/ \E p \in Procs : DeleteLookup(p)
    \/ \E p \in Procs : DeleteExec(p)
    \/ \E p \in Procs : StoreFailure(p)
    \/ \E p \in Procs : FirstStatementFailure(p)

Spec == Init /\ [][Next]_vars

(***************************************************************************)
(* Properties.                                                             *)
(***************************************************************************)

\* C1: as long as no row of a code was ever deleted, the row's totalClicks
\* equals the number of redirects answered 302 for the code, in every
\* interleaving of the redirects: no increment is lost.
NoLostClicks ==
    \A c \in Codes :
        c \notin removed =>
            /\ \A r \in Matching(table, c) : r.totalClicks = redirects[c]
            /\ Matching(table, c) = {} => redirects[c] = 0

\* two redirects of one code have been answered, the second of which had
\* selected the row before the first one's increment
TwoInterleavedRedirects ==
    /\ last.op = "redirect" /\ last.status = 302
    /\ last.code[1] \notin removed
    /\ redirects[last.code[1]] = 2
    /\ last.link[1].totalClicks = 0
    /\ \E r \in Matching(table, last.code[1]) : r.totalClicks = 2

\* C2: while no row of a code was ever deleted, at most one POST is answered
\* 201 for it, every 409 for it comes with that one 201, a POST whose insert
\* hits the unique constraint is answered 409, and a valid POST with a custom
\* code that meets no other error is answered 201 or 409.
OneCreateWins ==
    /\ \A c \in Codes :
           c \notin removed =>
               /\ created[c] <= 1
               /\ conflicts[c] > 0 => created[c] = 1
    /\ (last.op = "post" /\ last.caught = Some(UniqueViolationMsg)) => last.status = 409
    /\ (/\ last.op = "post" /\ Truthy(last.customCode)
        /\ validateCreateLinkRequest(last.targetUrl[1], last.customCode).valid
        /\ last.caught \in {None, Some(UniqueViolationMsg)})
       => last.status \in {201, 409}

\* a POST with a custom code lost the race at the insert and was answered 409
CustomCreateLostAtInsert ==
    /\ last.op = "post" /\ Truthy(last.customCode)
    /\ last.caught = Some(UniqueViolationMsg)
    /\ last.status = 409
    /\ last.customCode[1] \notin removed
    /\ created[last.customCode[1]] = 1

\* C3 (as claimed): a redirect whose update matched no row, the link having
\* been deleted after the select, is answered 404.
RedirectOfDeletedIsNotFound ==
    (last.op = "redirect" /\ last.rowCount = Some(0)) => last.status = 404

\* C4: no two rows of the table have the same code.
UniqueCodes ==
    \A r1 \in table : \A r2 \in table : r1.code = r2.code => r1 = r2

\* an insert was rejected by the unique constraint and the row that holds the
\* code is the only one
InsertRejected ==
    /\ last.op = "post" /\ last.caught = Some(UniqueViolationMsg)
    /\ Cardinality(Matching(table, last.code[1])) = 1

\* C5: a code whose DELETE answered 200 has no row until a POST inserts it
\* again, and a GET or redirect of it that arrives in between is answered 404
\* (unless the store fails), with no redirect and no update.
DeletedStaysNotFound ==
    /\ \A c \in gone : Matching(table, c) = {}
    /\ \A p \in Procs : req[p].op = "redirect" => ~req[p].afterDelete
    /\ (last.op \in {"get", "redirect"} /\ last.afterDelete /\ last.caught = None)
       => /\ last.status = 404
          /\ last.rowCount = None
          /\ last.body.kind # "redirect"

\* a redirect that arrived after the DELETE of its code answered 200 got 404
RedirectAfterDelete ==
    /\ last.op = "redirect" /\ last.afterDelete
    /\ last.status = 404
    /\ last.code[1] \in removed

\* C6 (as claimed): DELETE answers 200 exactly when its own delete removed the
\* row, and 404 exactly when there was no row to remove.
DeleteReportsWhatItDid ==
    (last.op = "delete" /\ last.caught = None)
    => /\ last.status = 200 <=> last.rowCount = Some(1)
       /\ last.status = 404 <=> last.rowCount # Some(1)

\* C7: a new row starts with totalClicks = 0, and every step leaves the
\* totalClicks of a row as it is or raises it by exactly one.
ClicksOnlyGrow ==
    [][/\ \A r \in table' :
             (\A r0 \in table : r0.id # r.id) => r.totalClicks = 0
       /\ \A r0 \in table : \A r \in table' :
             r.id = r0.id => r.totalClicks \in {r0.totalClicks, r0.totalClicks + 1}]_vars

\* a link has been clicked twice
ClickedTwice == \E r \in table : r.totalClicks = 2

\* C8: a step that changes a row leaves its id, code, targetUrl and createdAt
\* alone, and is the update of a redirect of that code answered 302.
OnlyClicksChange ==
    [][\A r0 \in table : \A r \in table' :
          r.id = r0.id =>
              /\ r.code = r0.code
              /\ r.targetUrl = r0.targetUrl
              /\ r.createdAt = r0.createdAt
              /\ r # r0 => /\ last'.op = "redirect" /\ last'.status = 302
                           /\ last'.code = Some(r0.code)
                           /\ \E p \in Procs : req[p].pc = "redirect_update"
                                               /\ req'[p].pc = "idle"]_vars

\* the update of a redirect has changed a row
RedirectChangedRow ==
    /\ last.op = "redirect" /\ last.rowCount = Some(1)
    /\ \E r \in Matching(table, last.code[1]) : r.lastClickedAt # None

\* C9: right after a POST with a custom code is answered 201, GET of that
\* code answers 200 with the code and targetUrl of the POST, totalClicks = 0
\* and lastClickedAt = null.
CreateThenGet ==
    (last.op = "post" /\ last.status = 201 /\ Truthy(last.customCode))
    => \A link \in SelectByCode(table, last.customCode[1]) :
          /\ GetResponse(link).status = 200
          /\ GetResponse(link).body.kind = "link"
          /\ LET got == GetResponse(link).body.payload[1]
             IN  /\ got.code = last.customCode[1]
                 /\ got.targetUrl = last.targetUrl[1]
                 /\ got.totalClicks = 0
                 /\ got.lastClickedAt = None

\* a POST with a custom code has just been answered 201
CustomCreateSucceeded ==
    /\ last.op = "post" /\ last.status = 201 /\ Truthy(last.customCode)
    /\ last.targetUrl = Some(UrlB)

\* C10: a POST without custom code whose generated code was inserted by
\* another request after its existence check is answered 409 or 500 with an
\* error message and adds no row; and a 201 of a POST is for the one row of
\* that code, which that POST inserted.
GeneratedCodeRace ==
    /\ (last.op = "post" /\ ~Truthy(last.customCode)
        /\ last.caught = Some(UniqueViolationMsg))
       => /\ last.status \in {409, 500}
          /\ last.body.kind = "json" /\ last.body.error # ""
          /\ Cardinality(Matching(table, last.code[1])) = 1
    /\ (last.op = "post" /\ last.status = 201)
       => /\ Matching(table, last.code[1]) =
                 {Row(nextId - 1, last.code[1], last.targetUrl[1], now)}
          /\ last.body = LinkBody(serializeLink(Row(nextId - 1, last.code[1],
                                                    last.targetUrl[1], now)))

\* a POST without custom code lost the race at the insert
GeneratedCreateLostAtInsert ==
    /\ last.op = "post" /\ ~Truthy(last.customCode)
    /\ last.caught = Some(UniqueViolationMsg)
    /\ last.status = 409

\* C11: a POST without custom code answers "Failed to generate unique code"
\* only when its third candidate was found to exist; that answer is a 500
\* with an error message, the step inserts no row, the request is over, and
\* no request ever makes a fourth attempt.
GenerationExhausted ==
    [][\A p \in Procs :
         /\ req'[p].attempt <= 3
         /\ (req[p].pc = "post_generate" /\ req[p].attempt = 3)
            => req'[p].pc \in {"post_generate", "post_insert", "idle"}
         /\ (req[p].pc = "post_generate" /\ req'[p].pc = "idle"
             /\ last'.caught = None)
            => /\ req[p].attempt = 3
               /\ \E candidate \in generateShortCode : Matching(table, candidate) # {}
               /\ last'.op = "post" /\ last'.customCode = req[p].customCode
               /\ last'.status = 500
               /\ last'.body.kind = "json" /\ last'.body.error # ""
               /\ table' = table /\ nextId' = nextId
               /\ req'[p] = Idle]_vars

\* a POST without custom code was answered that no unique code could be generated
GenerationExhaustedAnswered ==
    /\ last.op = "post" /\ ~Truthy(last.customCode) /\ last.caught = None
    /\ last.status = 500
    /\ last.body = ErrorBody("Failed to generate unique code. Please try again.")
    /\ table # {}

\* C12: a POST whose body parsed and whose targetUrl fails validateUrl, or
\* whose body has a customCode that fails validateCode, is answered 400 with
\* an error message (and no row is added for it).
InvalidCreateIsRejected ==
    (/\ last.op = "post" /\ last.targetUrl # None /\ last.caught = None
     /\ \/ ~validateUrl(last.targetUrl[1]).valid
        \/ (last.customCode # None /\ ~validateCode(last.customCode[1]).valid))
    => /\ last.status = 400
       /\ last.body.kind = "json" /\ last.body.error # ""

\* C13: a redirect request that arrives for a code no row has does not go on
\* to the update; it is answered 404 in plain text, not with a redirect,
\* and the step leaves the table as it was.
RedirectOfUnknownCode ==
    [][\A c \in PathCodes :
         (Matching(table, c) = {} /\ started' = started + 1)
         => /\ \A p \in Procs :
                 ~(req[p].pc = "idle" /\ req'[p].op = "redirect"
                   /\ req'[p].code = Some(c))
            /\ (last'.op = "redirect" /\ last'.code = Some(c) /\ last'.caught = None)
               => /\ last'.status = 404
                  /\ last'.body.kind = "text"
                  /\ table' = table /\ nextId' = nextId]_vars

\* a redirect for a code without a row was answered 404 while another code has a row
RedirectNotFound ==
    /\ last.op = "redirect" /\ last.status = 404 /\ last.caught = None
    /\ Matching(table, last.code[1]) = {}
    /\ table # {}

\* C14: a valid POST with a custom code that started after a DELETE of that
\* code was answered, with no row of the code inserted since, and that no
\* store failure interrupted, is answered 201 with a link of totalClicks 0 and
\* lastClickedAt null, and the one row of the code has these values.
ReuseAfterDelete ==
    (/\ last.op = "post" /\ last.afterDelete /\ last.caught = None
     /\ Truthy(last.customCode) /\ last.targetUrl # None
     /\ validateCreateLinkRequest(last.targetUrl[1], last.customCode).valid)
    => /\ last.status = 201
       /\ last.body.kind = "link"
       /\ last.body.payload[1].code = last.customCode[1]
       /\ last.body.payload[1].targetUrl = last.targetUrl[1]
       /\ last.body.payload[1].totalClicks = 0
       /\ last.body.payload[1].lastClickedAt = None
       /\ Cardinality(Matching(table, last.customCode[1])) = 1
       /\ \A r \in Matching(table, last.customCode[1]) :
            /\ r.totalClicks = 0 /\ r.lastClickedAt = None
            /\ r.targetUrl = last.targetUrl[1]

\* a code that had a clicked row, deleted since, was created again
RecreatedAfterClicksAndDelete ==
    /\ last.op = "post" /\ last.afterDelete /\ last.status = 201
    /\ last.customCode[1] \in removed
    /\ redirects[last.customCode[1]] >= 1
    /\ created[last.customCode[1]] = 2

GeneratedCodeIsFresh ==
    [][\A p \in Procs :
         (req[p].pc = "post_generate" /\ req'[p].pc = "post_insert")
         => LET code == req'[p].code[1]
            IN  /\ Len(code) = 6
                /\ \A i \in DOMAIN code : code[i] \in Upper \cup Lower \cup Digits
                /\ Matching(table, code) = {}
                /\ table' = table]_vars

\* a POST without custom code settled on a code while the table had a row
GeneratedCodeChosen ==
    \E p \in Procs :
        /\ req[p].pc = "post_insert" /\ ~Truthy(req[p].customCode)
        /\ table # {}

\* C17 as stated: every response of status 400 or above, of every endpoint,
\* has a JSON body with a non-empty error string; 200, 201 and 302 have none.
EveryErrorCarriesErrorString ==
    /\ last.status >= 400 => last.body.kind = "json" /\ last.body.error # ""
    /\ last.status \in {200, 201, 302} => last.body.error = ""

\* C17, amended: the responses of status 400 or above of the four API
\* endpoints have a JSON body with a non-empty error string; those of the
\* redirect endpoint are the plain texts "Not Found" (404) and "Internal
\* Server Error" (500) without an error field; 200, 201 and 302 responses
\* carry no error string.
ApiErrorsCarryErrorString ==
    /\ (last.op \in {"post", "get", "list", "delete"} /\ last.status >= 400)
       => last.body.kind = "json" /\ last.body.error # ""
    /\ (last.op = "redirect" /\ last.status >= 400)
       => \/ last.status = 404 /\ last.body = TextBody("Not Found")
          \/ last.status = 500 /\ last.body = TextBody("Internal Server Error")
    /\ last.status \in {200, 201, 302}
       => last.body.error = "" /\ last.body.kind \in {"link", "links", "deleted", "redirect"}
    /\ last.pc = "done" => last.status \in {200, 201, 302, 400, 404, 409, 500}

\* the redirect endpoint answered a failure of its update in plain text
RedirectFailedInPlainText ==
    /\ last.op = "redirect" /\ last.status = 500
    /\ last.link # <<>>
    /\ last.body = TextBody("Internal Server Error")

\* C18: a request one of whose statements failed in the store for another
\* reason than the unique constraint is answered 500 with the generic
\* message of its handler's catch block.
StoreFailureIsGeneric500 ==
    last.caught = Some(StoreFailureMsg)
    => /\ last.pc = "done"
       /\ last.status = 500
       /\ \/ last.op \in {"post", "get", "list", "delete"}
             /\ last.body = ErrorBody("Internal server error")
          \/ last.op = "redirect"
             /\ last.body = TextBody("Internal Server Error")

\* the insert of a POST failed in the store
InsertFailedInStore ==
    /\ last.op = "post" /\ last.caught = Some(StoreFailureMsg)
    /\ last.code # None
    /\ last.status = 500

\* C19: a step in which GET /api/links/:code or GET /api/links answers, with
\* 200, 404 or 500, leaves the table as it was.
ReadsChangeNothing ==
    [][(last'.op \in {"get", "list"} /\ started' = started + 1)
       => table' = table /\ nextId' = nextId]_vars

\* the stats of a clicked link were fetched
StatsOfClickedLinkFetched ==
    /\ last.op = "get" /\ last.status = 200
    /\ last.body.payload[1].totalClicks >= 1
    /\ last.body.payload[1].lastClickedAt # None

\* C20: a redirect answered 302 whose update incremented a row redirects to
\* the targetUrl of that row.
RedirectTargetIsIncrementedRow ==
    (last.op = "redirect" /\ last.status = 302 /\ last.rowCount = Some(1))
    => \A r \in Matching(table, last.code[1]) : last.body.payload[1] = r.targetUrl

\* C21: the lastClickedAt of a row is null until the row's first click, and
\* no step replaces the lastClickedAt of a row by null or by an earlier time.
LastClickedAtNeverGoesBack ==
    [][\A r \in table : \A q \in table' :
         q.id = r.id
         => /\ (r.totalClicks = 0 => r.lastClickedAt = None)
            /\ (r.lastClickedAt # None
                => /\ q.lastClickedAt # None
                   /\ q.lastClickedAt[1] >= r.lastClickedAt[1])]_vars

(***************************************************************************)
(* Progress.  Every statement a handler awaits is answered by the store,   *)
(* with a result or with a failure: a handler that awaits a statement      *)
(* takes its next step.  No statement of one request waits for a step of   *)
(* another request.                                                        *)
(***************************************************************************)
\* the steps the handler in slot p takes after its first one
HandlerStep(p) ==
    \/ PostCheckExists(p)
    \/ PostGenerate(p)
    \/ PostInsert(p)
    \/ RedirectUpdate(p)
    \/ DeleteExec(p)
    \/ StoreFailure(p)

LiveSpec == Spec /\ \A p \in Procs : WF_vars(HandlerStep(p))

\* the store statements the request r has awaited so far
StatementsDone(r) ==
    IF r.pc = "post_generate" THEN r.attempt - 1
    ELSE IF r.pc = "post_insert"
    THEN (IF Truthy(r.customCode) THEN 1 ELSE r.attempt)
    ELSE IF r.pc \in {"redirect_update", "delete_exec"} THEN 1
    ELSE 0

\* C22 as stated, its count of round trips: a request that has awaited one
\* store statement awaits no second one, unless it is a redirect.
SingleRoundTrip ==
    \A p \in Procs :
        AwaitingStore(p) /\ req[p].op # "redirect" => StatementsDone(req[p]) = 0

\* C22, amended: every request in flight is eventually answered, whatever
\* the other requests do.  GET /api/links and GET /api/links/:code are
\* answered after one store statement; the redirect, DELETE and a POST with a
\* custom code after at most two (a select, then the update, delete or
\* insert); a POST without custom code after at most four (up to three
\* existence checks, then the insert).
EveryRequestReturns ==
    /\ [](\A p \in Procs :
            /\ req[p].op \notin {"get", "list"}
            /\ AwaitingStore(p)
               => StatementsDone(req[p]) + 1 <=
                     IF req[p].op = "post" /\ ~Truthy(req[p].customCode) THEN 4 ELSE 2)
    /\ \A p \in Procs : (req[p].pc # "idle") ~> (req[p].pc = "idle")

\* a POST without custom code is about to run its fourth statement
FourthStatementAwaited ==
    \E p \in Procs :
        /\ req[p].pc = "post_insert" /\ ~Truthy(req[p].customCode)
        /\ StatementsDone(req[p]) = 3

(***************************************************************************)
(* generateUniqueShortCode(checkExists, maxAttempts) taken alone           *)
(* (src/lib/utils.ts).  checkExists is the caller's: each call of it       *)
(* answers true or false.                                                  *)
(***************************************************************************)
\* the largest maxAttempts a caller passes
MaxMaxAttempts == 4

\* the maxAttempts argument: left out, or a number
MaxAttemptsArgs == {None} \cup {Some(n) : n \in 0..MaxMaxAttempts}

\* the call at the top of the for loop, attempt = 1
GenCalled(given) ==
    [fn |-> "generateUniqueShortCode", pc |-> "loop", given |-> given,
     maxAttempts |-> IF given = None THEN DefaultMaxAttempts ELSE given[1],
     attempt |-> 1,
     checked |-> <<>>,   \* the calls of checkExists: candidate and answer
     result |-> None]    \* the code returned; None with pc "returned" is null

GenInit ==
    /\ ServerInit /\ NoPageOpen
    /\ val = NoCall
    /\ \E given \in MaxAttemptsArgs : gen = GenCalled(given)

\* mutant: if (exists) return code
GenLoopInverted ==
    /\ gen.pc = "loop"
    /\ gen.attempt <= gen.maxAttempts
    /\ \E code \in generateShortCode : \E exists \in BOOLEAN :
         LET called == [gen EXCEPT !.checked =
                                      Append(@, [code |-> code, exists |-> exists])]
         IN  gen' = IF exists
                    THEN [called EXCEPT !.pc = "returned", !.result = Some(code)]
                    ELSE [called EXCEPT !.attempt = @ + 1]
    /\ UNCHANGED <<serverVars, val, componentVars>>

\* one iteration of the for loop
GenLoop ==
    /\ gen.pc = "loop"
    /\ gen.attempt <= gen.maxAttempts
    /\ \E code \in generateShortCode : \E exists \in BOOLEAN :
         LET called == [gen EXCEPT !.checked =
                                      Append(@, [code |-> code, exists |-> exists])]
         IN  gen' = IF ~exists
                    THEN [called EXCEPT !.pc = "returned", !.result = Some(code)]
                    ELSE [called EXCEPT !.attempt = @ + 1]
    /\ UNCHANGED <<serverVars, val, componentVars>>

\* the loop condition fails: return null
GenExhausted ==
    /\ gen.pc = "loop"
    /\ ~(gen.attempt <= gen.maxAttempts)
    /\ gen' = [gen EXCEPT !.pc = "returned", !.result = None]
    /\ UNCHANGED <<serverVars, val, componentVars>>

GenNext == GenLoop \/ GenExhausted

\* the loop runs on its own: nothing but checkExists is awaited
GeneratorSpec == GenInit /\ [][GenNext]_vars /\ WF_vars(GenNext)

\* C23: generateUniqueShortCode calls checkExists at most maxAttempts times
\* (3 when the argument is left out), never again after an answer of false;
\* it returns the candidate of the first call answered false, and null
\* exactly when maxAttempts calls were all answered true; and it returns.
GeneratorContract ==
    /\ [](LET n == Len(gen.checked)
          IN  /\ n <= gen.maxAttempts
              /\ gen.given = None => gen.maxAttempts = 3
              /\ gen.given # None => gen.maxAttempts = gen.given[1]
              /\ \A i \in 1..(n - 1) : gen.checked[i].exists
              /\ gen.pc = "loop" => \A i \in 1..n : gen.checked[i].exists
              /\ gen.pc = "returned"
                 => IF \E i \in 1..n : ~gen.checked[i].exists
                    THEN /\ ~gen.checked[n].exists
                         /\ gen.result = Some(gen.checked[n].code)
                    ELSE /\ gen.result = None
                         /\ n = gen.maxAttempts)
    /\ <>(gen.pc = "returned")

\* a call without maxAttempts returned null after three collisions
DefaultCallExhausted ==
    /\ gen.fn = "generateUniqueShortCode" /\ gen.given = None
    /\ gen.pc = "returned" /\ gen.result = None
    /\ Len(gen.checked) = 3

\* C24: a valid POST with a custom code that no store failure interrupted is
\* answered 201 unless a row of that very code is in the table, whatever
\* requests on other codes are in flight; and a step that changes the table
\* is the insert, update or delete of one request and adds, changes or
\* removes only rows of that request's code.
DistinctCodesIndependent ==
    /\ []((/\ last.op = "post" /\ Truthy(last.customCode) /\ last.caught = None
           /\ last.targetUrl # None
           /\ validateCreateLinkRequest(last.targetUrl[1], last.customCode).valid
           /\ last.status # 201)
          => /\ last.status = 409
             /\ Matching(table, last.customCode[1]) # {})
    /\ [][table' # table
          => /\ last'.op \in {"post", "redirect", "delete"}
             /\ last'.code # None
             /\ \A r \in (table \ table') \cup (table' \ table) :
                    r.code = last'.code[1]]_vars

\* a POST with a custom code was answered 201 while a POST with another
\* custom code was between its existence check and its insert
TwoCreatesWithDistinctCodes ==
    /\ last.op = "post" /\ last.status = 201 /\ Truthy(last.customCode)
    /\ \E p \in Procs :
         /\ req[p].pc = "post_insert" /\ Truthy(req[p].customCode)
         /\ req[p].customCode # last.customCode

(***************************************************************************)
(* The validators taken alone (src/lib/validation.ts): a call with its     *)
(* arguments, then its return value.                                       *)
(***************************************************************************)
\* the longest code passed to a validator
MaxInputLength == 9

\* a lower-case letter, an upper-case letter, a digit, a hyphen and a space
InputChars == {"a", "Z", "7", "-", " "}

\* the codes passed: of every length up to MaxInputLength, one character
\* repeated and any character at the end, and the codes of the requests
InputCodes ==
    {[i \in 1..n |-> IF i = n THEN d ELSE c] :
        n \in 0..MaxInputLength, c \in InputChars, d \in InputChars}
    \cup {CodeA, CodeB, CodeShort, CodeEmpty, CodeEight}

InputUrls == {UrlA, UrlB, UrlFtp, UrlMissing, UrlBlank, UrlLong}

\* customCode?: string, undefined or a string
InputCustomCodes == {None} \cup {Some(code) : code \in InputCodes}

CodeCall(code) ==
    [fn |-> "validateCode", pc |-> "called", code |-> code,
     targetUrl |-> UrlMissing, customCode |-> None, result |-> Valid]

RequestCall(targetUrl, customCode) ==
    [fn |-> "validateCreateLinkRequest", pc |-> "called", code |-> <<>>,
     targetUrl |-> targetUrl, customCode |-> customCode, result |-> Valid]

ValInit ==
    /\ ServerInit /\ NoPageOpen
    /\ gen = NoCall
    /\ \/ \E code \in InputCodes : val = CodeCall(code)
       \/ \E targetUrl \in InputUrls : \E customCode \in InputCustomCodes :
            val = RequestCall(targetUrl, customCode)

ValidateCodeReturns ==
    /\ val.fn = "validateCode" /\ val.pc = "called"
    /\ val' = [val EXCEPT !.pc = "returned", !.result = validateCode(val.code)]
    /\ UNCHANGED <<serverVars, gen, componentVars>>

ValidateCreateLinkRequestReturns ==
    /\ val.fn = "validateCreateLinkRequest" /\ val.pc = "called"
    /\ val' = [val EXCEPT !.pc = "returned",
                          !.result = validateCreateLinkRequest(val.targetUrl,
                                                               val.customCode)]
    /\ UNCHANGED <<serverVars, gen, componentVars>>

ValNext == ValidateCodeReturns \/ ValidateCreateLinkRequestReturns

ValidatorSpec == ValInit /\ [][ValNext]_vars

\* C25: validateCreateLinkRequest returns the failure of validateUrl when the
\* url fails, whatever the code; otherwise, when a custom code is supplied
\* (any string, the empty one included), the result of validateCode on it;
\* and valid when none is supplied.
SuppliedCodeIsValidated ==
    (val.fn = "validateCreateLinkRequest" /\ val.pc = "returned")
    => IF ~validateUrl(val.targetUrl).valid
       THEN val.result = validateUrl(val.targetUrl)
       ELSE IF val.customCode # None
       THEN val.result = validateCode(val.customCode[1])
       ELSE val.result = Valid

\* C26: validateCode(code) is valid exactly when code is not blank, has 6 to
\* 8 characters and only characters of [A-Za-z0-9]; otherwise its message is
\* "Code is required" for an empty or blank code, else the too-short one for
\* fewer than 6 characters, else the too-long one for more than 8, else the
\* one about the characters.
ValidateCodeContract ==
    (val.fn = "validateCode" /\ val.pc = "returned")
    => LET code == val.code
           blank == \A i \in 1..Len(code) : code[i] = " "
           alphanumeric == \A i \in 1..Len(code) :
                               code[i] \in Upper \cup Lower \cup Digits
       IN  /\ val.result.valid <=> (~blank /\ Len(code) \in 6..8 /\ alphanumeric)
           /\ ~val.result.valid
              => val.result.error =
                   IF blank THEN "Code is required"
                   ELSE IF Len(code) < 6
                        THEN "Code must be at least 6 characters long"
                   ELSE IF Len(code) > 8
                        THEN "Code must be at most 8 characters long"
                   ELSE "Code can only contain letters (A-Z, a-z) and numbers (0-9)"
           /\ val.result.valid => val.result.error = ""

\* validateCode rejected a code of 6 to 8 characters for a character in it
CodeOfRightLengthRejected ==
    /\ val.fn = "validateCode" /\ val.pc = "returned"
    /\ Len(val.code) \in 6..8
    /\ val.result.error = "Code can only contain letters (A-Z, a-z) and numbers (0-9)"

\* C27: every row of the table has lastClickedAt null exactly when its
\* totalClicks is 0.
ClickedIffCounted ==
    \A r \in table : (r.lastClickedAt = None) <=> (r.totalClicks = 0)

\* a clicked row beside a row never clicked
ClickedAndUnclickedRows ==
    \E r, u \in table :
        /\ r.totalClicks >= 1 /\ r.lastClickedAt # None
        /\ u.totalClicks = 0 /\ u.lastClickedAt = None

\* C28: a step in which a POST is answered 409, after its existence check or
\* after the unique violation of its insert, leaves the table as it was, and
\* the table holds one row of the POST's code.
ConflictChangesNothing ==
    [][(last'.op = "post" /\ last'.status = 409)
       => /\ table' = table
          /\ Cardinality(Matching(table', RequestCode(last')[1])) = 1]_vars

\* a POST was answered 409 for a code whose row has been clicked
ConflictOnClickedLink ==
    /\ last.op = "post" /\ last.status = 409
    /\ \E r \in Matching(table, RequestCode(last)[1]) : r.totalClicks >= 1

\* C29: a POST is answered with a status of 500 or above only after a store
\* statement failed or the generation of a code was exhausted.
ServerErrorOnlyForServerFaults ==
    (last.op = "post" /\ last.status >= 500)
    => \/ last.caught = Some(StoreFailureMsg)
       \/ /\ last.caught = None
          /\ last.body = ErrorBody("Failed to generate unique code. Please try again.")

(***************************************************************************)
(* The LinkTable component taken alone (src/components/LinkTable.tsx): the *)
(* rows it is given, its state deletingCode and error, and the DELETE      *)
(* fetches of handleDelete that have not settled.  The answer of a fetch   *)
(* is the server's to choose.                                              *)
(***************************************************************************)
\* the most DELETE fetches for one code in flight at a time
MaxPendingDeletes == 2

\* disabled={deletingCode === link.code}
DeleteButtonDisabled(code) == deletingCode = Some(code)

TableInit ==
    /\ ServerInit /\ LibrariesIdle
    /\ links \in SUBSET TableCodes /\ links # {}
    /\ deletingCode = None /\ tableError = None
    /\ deletes = [code \in TableCodes |-> 0]

\* a click on the enabled delete button of a row: handleDelete(code) up to
\* its await fetch
HandleDelete(code) ==
    /\ code \in links /\ ~DeleteButtonDisabled(code)
    /\ deletes[code] < MaxPendingDeletes
    /\ \E confirmed \in BOOLEAN :
         IF ~confirmed
         THEN UNCHANGED <<deletingCode, tableError, deletes>>
         ELSE /\ tableError' = None
              /\ deletingCode' = Some(code)
              /\ deletes' = [deletes EXCEPT ![code] = @ + 1]
    /\ UNCHANGED <<links, serverVars, libraryVars>>

\* the fetch of handleDelete(code) settles: response.ok and onLinkDeleted,
\* or the catch block; then finally
HandleDeleteSettled(code) ==
    /\ deletes[code] > 0
    /\ deletes' = [deletes EXCEPT ![code] = @ - 1]
    /\ \E outcome \in {"ok", "Link not found", "Internal server error",
                       "Failed to fetch"} :
         IF outcome = "ok"
         THEN /\ links' = links \ {code}
              /\ UNCHANGED tableError
         ELSE /\ tableError' = Some(outcome)
              /\ UNCHANGED links
    /\ deletingCode' = None
    /\ UNCHANGED <<serverVars, libraryVars>>

TableNext ==
    \/ \E code \in TableCodes : HandleDelete(code)
    \/ \E code \in TableCodes : HandleDeleteSettled(code)

TableSpec == TableInit /\ [][TableNext]_vars

\* C30: while a DELETE fetch of handleDelete(c) has not settled, deletingCode
\* is c, so the delete button of row c is disabled, and there is no second
\* DELETE fetch for c.
DeleteButtonStaysDisabled ==
    \A code \in TableCodes :
        deletes[code] > 0 => DeleteButtonDisabled(code) /\ deletes[code] = 1

====
